---- MODULE Spec2Model ----
(***************************************************************************)
(* A model of two pieces of the devtools client:                           *)
(*                                                                         *)
(*  - the memory panel's snapshot action creators                          *)
(*    (src/client/memory/actions/snapshot.js): takeSnapshotAndCensus,      *)
(*    selectSnapshotAndRefresh, takeSnapshot, readSnapshot, takeCensus,    *)
(*    refreshSelectedCensus, selectSnapshot, run as tasks that suspend at  *)
(*    every remote call;                                                   *)
(*  - the animation inspector's AnimationsController (the second half of   *)
(*    src/client/styleinspector/test/browser_ruleview_edit-property_05.js).*)
(*                                                                         *)
(* Every action of the model is one run of JavaScript from one suspension  *)
(* point to the next: a handler called by the UI, or the continuation of a *)
(* task whose awaited remote call resolved or rejected.                    *)
(***************************************************************************)
EXTENDS Integers, Sequences, FiniteSets, TLC

(***************************************************************************)
(* Bounds of the model.                                                    *)
(***************************************************************************)
\* how many times the user takes a snapshot, changes inverted, filter or
\* breakdown, or toggles diffing
MaxEvents == 3
\* how many events the animation inspector gets: calls of initialize and
\* destroy, selections of a node, a tool or a sidebar tab, mutations
MaxUiEvents == 4
\* the documentCurrentTime of a player's state is one of 0..MaxTime
MaxTime == 2
\* how many players documentCurrentTime is read with
MaxPlayers == 3

(***************************************************************************)
(* Values.                                                                 *)
(***************************************************************************)
\* null, for a snapshot id (the value takeSnapshot returns on failure)
NullId == 0
\* null, for a path
NullPath == 0
\* null, for the filter string
NullFilter == "null"
\* no breakdown (the breakdown field of an action that carries none)
NoBreakdown == "none"

Breakdowns == {"coarseType", "allocationStack"}
Filters == {NullFilter, "obj"}

SnapshotIds == 1..MaxEvents

States ==
  {"SAVING", "SAVED", "IMPORTING", "READING", "READ", "SAVING_CENSUS",
   "SAVED_CENSUS", "ERROR"}

ActionTypes ==
  {"TOGGLE_DIFFING", "SELECT_SNAPSHOT", "TAKE_SNAPSHOT_START",
   "TAKE_SNAPSHOT_END", "READ_SNAPSHOT_START", "READ_SNAPSHOT_END",
   "TAKE_CENSUS_START", "TAKE_CENSUS_END", "SNAPSHOT_ERROR",
   "IMPORT_SNAPSHOT_START"}

RemoteCalls ==
  {"saveHeapSnapshot", "readHeapSnapshot", "getCreationTime", "takeCensus"}

\* the report of a census that has not been delivered
NoReport ==
  [path |-> NullPath, breakdown |-> NoBreakdown, asInverted |-> FALSE,
   filter |-> NullFilter]

\* snapshot.census of a snapshot that has none (null)
NoCensus ==
  [taken |-> FALSE, report |-> NoReport, breakdown |-> NoBreakdown,
   inverted |-> FALSE, filter |-> NullFilter]

VARIABLES
  snapshots,   \* getState().snapshots: the list of snapshot records
  inverted,    \* getState().inverted
  filter,      \* getState().filter
  breakdown,   \* getState().breakdown
  diffing,     \* getState().diffing
  tasks,       \* the suspended tasks, each at its await
  incId,       \* the id the next createSnapshot() hands out
  events,      \* how many of the user's events of MaxEvents have happened
  count,       \* per snapshot id and action type: how many were dispatched
  remote,      \* per snapshot id and remote call: issued/resolved/rejected
  asserts,     \* the assertions that failed in the last step
  last         \* the branch the last step took, if it is one of Note's

memVars ==
  <<snapshots, inverted, filter, breakdown, diffing, tasks, incId, events,
    count, remote, asserts, last>>

(***************************************************************************)
(* The state of the animation inspector: the AnimationsController object,  *)
(* the toolbox and inspector it listens to, and the server it talks to.    *)
(***************************************************************************)
VARIABLES
  currentToolId,           \* gToolbox.currentToolId
  currentTabId,            \* gInspector.sidebar.getCurrentTabID()
  selection,               \* gInspector.selection.nodeFront
  initialized,             \* this.initialized: absent, pending or resolved
  destroyed,               \* this.destroyed: absent, pending or resolved
  animationsFront,         \* this.animationsFront
  traits,                  \* this.traits
  listeners,               \* how often each event has a listener of ours
  isListeningToMutations,  \* this.isListeningToMutations
  nodeFront,               \* this.nodeFront
  animationPlayers,        \* this.animationPlayers
  calls,                   \* the suspended async calls, oldest request first
  updating,                \* gInspector.updating() callbacks not yet called
  fronts,                  \* how many AnimationsFronts were constructed
  globals,                 \* gToolbox and gInspector: undefined, set or null
  released,                \* per player front: how often release() was called
  dropped,                 \* the fronts destroyAnimationPlayers took off the list
  server,                  \* the node the AnimationsActor observes, its players
  uiEvents,                \* how many events of MaxUiEvents have happened
  step,                    \* what the last step was and did
  currentTime              \* what documentCurrentTime returned when last read

ctlVars ==
  <<currentToolId, currentTabId, selection, initialized, destroyed,
    animationsFront, traits, listeners, isListeningToMutations, nodeFront,
    animationPlayers, calls, updating, fronts, globals, released, dropped,
    server, uiEvents, step>>

animVars == <<ctlVars, currentTime>>

vars == <<memVars, animVars>>

\* no node: selection.nodeFront when nothing is selected, a null nodeFront
NullNode == "null"
\* a property that was never assigned
Undefined == "undefined"
\* the server observes no node
NoNode == "none"

\* this.traits before initialize assigned it
NoTraits == [known |-> FALSE, hasMutationEvents |-> FALSE]

NoStep ==
  [handler |-> "none", visible |-> TRUE, updated |-> FALSE,
   called |-> FALSE, emitted |-> FALSE, root |-> "none", ended |-> "no",
   woken |-> 0]

\* the value of documentCurrentTime: a number, or false
Number(time) == [read |-> TRUE, isFalse |-> FALSE, time |-> time]
False == [read |-> TRUE, isFalse |-> TRUE, time |-> 0]
\* documentCurrentTime was not read
NotRead == [read |-> FALSE, isFalse |-> FALSE, time |-> 0]

\* the controller as the object literal defines it, but for the players it
\* holds, in an inspector whose animationinspector tab is shown and that
\* has an element selected
AnimInitWith(players) ==
  /\ currentToolId = "inspector"
  /\ currentTabId = "animationinspector"
  /\ selection = "div"
  /\ initialized = "none"
  /\ destroyed = "none"
  /\ animationsFront = Undefined
  /\ traits = NoTraits
  /\ listeners = [e \in {"new-node-front", "sidebar-select",
                          "toolbox-select", "mutations"} |-> 0]
  /\ isListeningToMutations = FALSE
  /\ nodeFront = Undefined
  /\ animationPlayers = players
  /\ calls = <<>>
  /\ updating = 0
  /\ fronts = 0
  /\ globals = Undefined
  /\ released = <<>>
  /\ dropped = {}
  /\ server = [node |-> NoNode, gen |-> 0, players |-> {}, made |-> {}]
  /\ uiEvents = 0
  /\ step = NoStep
  /\ currentTime = NotRead

\* the controller as the object literal defines it: animationPlayers: []
AnimInit == AnimInitWith(<<>>)

(***************************************************************************)
(* Actions (the objects handed to dispatch) and the store's reducers.      *)
(***************************************************************************)
\* an action object; the fields a type does not carry hold null
Action(type, id) ==
  [type |-> type, id |-> id, path |-> NullPath, creationTime |-> 0,
   inverted |-> FALSE, filter |-> NullFilter, breakdown |-> NoBreakdown,
   report |-> NoReport, state |-> "SAVING"]

\* createSnapshot(): a new snapshot record, with the next id
createSnapshot(id) ==
  [id |-> id, state |-> "SAVING", path |-> NullPath, census |-> NoCensus,
   selected |-> FALSE, creationTime |-> 0]

\* toggleDiffing(): the action that turns diffing on or off
toggleDiffing == Action("TOGGLE_DIFFING", NullId)

\* selectSnapshot(id)
selectSnapshot(id) == Action("SELECT_SNAPSHOT", id)

\* the snapshots reducer, for one snapshot record s
ReduceSnapshot(s, a) ==
  IF a.type = "SELECT_SNAPSHOT" THEN [s EXCEPT !.selected = (s.id = a.id)]
  ELSE IF s.id # a.id THEN s
  ELSE IF a.type = "TAKE_SNAPSHOT_END"
    THEN [s EXCEPT !.state = "SAVED", !.path = a.path]
  ELSE IF a.type = "READ_SNAPSHOT_START" THEN [s EXCEPT !.state = "READING"]
  ELSE IF a.type = "READ_SNAPSHOT_END"
    THEN [s EXCEPT !.state = "READ", !.creationTime = a.creationTime]
  ELSE IF a.type = "TAKE_CENSUS_START"
    THEN [s EXCEPT !.state = "SAVING_CENSUS",
                   !.census = [taken |-> TRUE, report |-> NoReport,
                               breakdown |-> a.breakdown,
                               inverted |-> a.inverted, filter |-> a.filter]]
  ELSE IF a.type = "TAKE_CENSUS_END"
    THEN [s EXCEPT !.state = "SAVED_CENSUS",
                   !.census = [taken |-> TRUE, report |-> a.report,
                               breakdown |-> a.breakdown,
                               inverted |-> a.inverted, filter |-> a.filter]]
  ELSE IF a.type = "SNAPSHOT_ERROR" THEN [s EXCEPT !.state = "ERROR"]
  ELSE s

\* the snapshots reducer
ReduceSnapshots(snaps, a) ==
  IF a.type \in {"TAKE_SNAPSHOT_START", "IMPORT_SNAPSHOT_START"}
  THEN Append(snaps, [createSnapshot(a.id) EXCEPT !.state = a.state,
                                                  !.path = a.path])
  ELSE [i \in DOMAIN snaps |-> ReduceSnapshot(snaps[i], a)]

\* the diffing reducer
ReduceDiffing(d, a) == IF a.type = "TOGGLE_DIFFING" THEN ~d ELSE d

\* getSnapshot(getState(), id): the snapshot with that id. The callers in
\* snapshot.js only pass ids of snapshots of the list.
HasSnapshot(snaps, id) == \E i \in DOMAIN snaps : snaps[i].id = id
getSnapshot(snaps, id) ==
  snaps[CHOOSE i \in DOMAIN snaps : snaps[i].id = id]

\* breakdownEquals(a, b): structural equality of two breakdowns
breakdownEquals(a, b) == a = b

\* censusIsUpToDate(inverted, filter, breakdown, census)
censusIsUpToDate(inv, flt, brk, census) ==
  /\ census.taken
  /\ inv = census.inverted
  /\ flt = census.filter
  /\ breakdownEquals(brk, census.breakdown)

(***************************************************************************)
(* The remote objects: MemoryFront and HeapAnalysesClient.                 *)
(***************************************************************************)
\* the path front.saveHeapSnapshot() resolves with, for the snapshot id
SavedPath(id) == 100 + id

\* the time heapWorker.getCreationTime(path) resolves with
CreationTimeOf(path) == path + 1000

\* the report heapWorker.takeCensus(path, { breakdown }, opts) resolves with:
\* the census of that snapshot for that breakdown and those options
CensusReport(call) ==
  [path |-> call.path, breakdown |-> call.breakdown,
   asInverted |-> call.asInverted, filter |-> call.filter]

\* a remote call; the fields a method does not take hold null
Remote(method, id, path) ==
  [method |-> method, id |-> id, path |-> path, breakdown |-> NoBreakdown,
   asInverted |-> FALSE, filter |-> NullFilter]

(***************************************************************************)
(* One run of JavaScript: the store it works on and what it did.           *)
(***************************************************************************)
\* the action types count counts
CountedTypes ==
  {"TAKE_SNAPSHOT_START", "TAKE_SNAPSHOT_END", "READ_SNAPSHOT_START",
   "READ_SNAPSHOT_END", "SNAPSHOT_ERROR"}

\* no branch to remember
NoNote == [tag |-> "none", id |-> NullId]

\* the context a run starts with
Ctx ==
  [snapshots |-> snapshots, diffing |-> diffing, inverted |-> inverted,
   filter |-> filter, breakdown |-> breakdown, dispatched |-> <<>>,
   called |-> <<>>, asserts |-> {}, note |-> NoNote,
   count |-> count, remote |-> remote]

\* dispatch(action) of a plain action object: the reducers run at once
Dispatch(c, a) ==
  [c EXCEPT !.snapshots = ReduceSnapshots(@, a),
            !.diffing = ReduceDiffing(@, a),
            !.dispatched = Append(@, a),
            !.count = IF a.type \in CountedTypes
                      THEN [@ EXCEPT ![a.id][a.type] = @ + 1] ELSE @]

\* the run takes a branch that last remembers:
\*   "upToDate"  takeCensus found the census up to date and returned at once
\*   "retaken"   takeCensus went round its loop again
\*   "ended"     takeCensus dispatched TAKE_CENSUS_END after more than one
\*               round of its loop
\*   "stale"     a heapWorker.takeCensus call rejected after inverted,
\*               filter or breakdown had changed
Note(c, id, tag) == [c EXCEPT !.note = [tag |-> tag, id |-> id]]

\* a remote call is issued
Call(c, r) ==
  [c EXCEPT !.called = Append(@, r),
            !.remote[r.id][r.method].issued = @ + 1]

\* the context of the continuation of task t, whose remote call ended with
\* outcome: "resolved" or "rejected"
Settled(t, outcome) ==
  [Ctx EXCEPT !.remote[t.call.id][t.call.method][outcome] = @ + 1]

\* assert(false, ...): the failure is reported and thrown
AssertFail(c, what) == [c EXCEPT !.asserts = @ \cup {what}]

(***************************************************************************)
(* Tasks. A task is one dispatched generator function, with the generator  *)
(* functions it dispatched and waits for; pc names the yield it is         *)
(* suspended at.                                                           *)
(*   root  the action creator the UI dispatched                            *)
(*   id    the snapshot the task works on                                  *)
(*   ret   what takeSnapshot returned (at pc "takeSnapshotReturned")       *)
(*   path  snapshot.path, read when readSnapshot or takeCensus was entered *)
(*   inverted, filter, breakdown   the locals of takeCensus                *)
(*   call  the remote call the task waits for                              *)
(*   rounds  how many times takeCensus went through its loop               *)
(*   changes  how many times inverted, filter or breakdown changed while   *)
(*            the task was in takeCensus's loop                            *)
(***************************************************************************)
NoCall == Remote("none", NullId, NullPath)

NewTask(root, id) ==
  [root |-> root, pc |-> "start", id |-> id, ret |-> NullId,
   path |-> NullPath, inverted |-> FALSE, filter |-> NullFilter,
   breakdown |-> NoBreakdown, call |-> NoCall, rounds |-> 0,
   changes |-> 0]

NoTask == NewTask("none", NullId)

\* the pcs at which a task waits for a remote call
AwaitingPcs ==
  {"saveHeapSnapshot", "readHeapSnapshot", "getCreationTime", "takeCensus"}
\* the pcs at which a task waits for a generator function it dispatched,
\* which has returned
ReturnedPcs == {"takeSnapshotReturned", "readSnapshotReturned"}
\* the pcs of a task that is over: returned, or ended by an exception
EndedPcs == {"done", "thrown"}

\* a run suspends at a remote call
Await(R, r) ==
  [c |-> Call(R.c, r), t |-> [R.t EXCEPT !.pc = r.method, !.call = r]]

\* a run ends
End(R, pc) == [R EXCEPT !.t.pc = pc, !.t.call = NoCall]

\* the types of a sequence of actions, the methods of a sequence of calls
Types(q) == [i \in DOMAIN q |-> q[i].type]
Methods(q) == [i \in DOMAIN q |-> q[i].method]

\* the run of task t that starts in the current state
Run(t) == [c |-> Ctx, t |-> t]

(***************************************************************************)
(* takeSnapshot (snapshot.js 57-80)                                        *)
(***************************************************************************)
\* lines 58-70: up to the yield of front.saveHeapSnapshot()
takeSnapshot(R) ==
  LET c1 == IF R.c.diffing THEN Dispatch(R.c, toggleDiffing) ELSE R.c
      id == R.t.id
      c2 == Dispatch(c1, Action("TAKE_SNAPSHOT_START", id))
      c3 == Dispatch(c2, selectSnapshot(id))
  IN  Await([R EXCEPT !.c = c3], Remote("saveHeapSnapshot", id, NullPath))

\* lines 77-78: the save resolved with path
takeSnapshotSaved(R, path) ==
  LET a == [Action("TAKE_SNAPSHOT_END", R.t.id) EXCEPT !.path = path]
  IN  [c |-> Dispatch(R.c, a),
       t |-> [R.t EXCEPT !.pc = "takeSnapshotReturned", !.ret = R.t.id,
                         !.call = NoCall]]

\* takeSnapshotFailed with the id returned in place of null
takeSnapshotFailedReturnsId(R) ==
  [c |-> Dispatch(R.c, Action("SNAPSHOT_ERROR", R.t.id)),
   t |-> [R.t EXCEPT !.pc = "takeSnapshotReturned", !.ret = R.t.id,
                     !.call = NoCall]]

\* lines 71-75: the save rejected
takeSnapshotFailed(R) ==
  [c |-> Dispatch(R.c, Action("SNAPSHOT_ERROR", R.t.id)),
   t |-> [R.t EXCEPT !.pc = "takeSnapshotReturned", !.ret = NullId,
                     !.call = NoCall]]

(***************************************************************************)
(* readSnapshot (snapshot.js 89-109)                                       *)
(***************************************************************************)
\* ReadableStates with the state of a snapshot that was read
ReadableStatesAndRead == {"SAVED", "IMPORTING", "READ"}

\* the states readSnapshot's assertion allows (line 92)
ReadableStates == {"SAVED", "IMPORTING"}

\* lines 90-99: up to the yield of heapWorker.readHeapSnapshot
readSnapshot(R) ==
  LET snapshot == getSnapshot(R.c.snapshots, R.t.id) IN
  IF snapshot.state \notin ReadableStates
  THEN End([R EXCEPT !.c = AssertFail(@, [op |-> "readSnapshot",
                                            id |-> R.t.id])], "thrown")
  ELSE Await([R EXCEPT !.c = Dispatch(@, Action("READ_SNAPSHOT_START",
                                                 R.t.id)),
                       !.t.path = snapshot.path],
             Remote("readHeapSnapshot", R.t.id, snapshot.path))

\* line 100: readHeapSnapshot resolved
readSnapshotRead(R) ==
  Await(R, Remote("getCreationTime", R.t.id, R.t.path))

\* line 107: getCreationTime resolved with creationTime
readSnapshotTimed(R, creationTime) ==
  LET a == [Action("READ_SNAPSHOT_END", R.t.id)
              EXCEPT !.creationTime = creationTime]
  IN  [c |-> Dispatch(R.c, a),
       t |-> [R.t EXCEPT !.pc = "readSnapshotReturned", !.call = NoCall]]

\* lines 101-105: readHeapSnapshot or getCreationTime rejected
readSnapshotFailed(R) ==
  [c |-> Dispatch(R.c, Action("SNAPSHOT_ERROR", R.t.id)),
   t |-> [R.t EXCEPT !.pc = "readSnapshotReturned", !.call = NoCall]]

(***************************************************************************)
(* takeCensus (snapshot.js 119-175)                                        *)
(***************************************************************************)
\* the states takeCensus's assertion allows (line 122)
CensusStates == {"READ", "SAVED_CENSUS"}

\* opts.filter = filter || null (line 152)
FilterOpt(flt) == IF flt = "" THEN NullFilter ELSE flt

\* lines 139-155: one round of the loop, up to the yield of
\* heapWorker.takeCensus
takeCensusRound(R) ==
  LET inv == R.c.inverted
      brk == R.c.breakdown
      flt == R.c.filter
      a == [Action("TAKE_CENSUS_START", R.t.id)
              EXCEPT !.inverted = inv, !.filter = flt, !.breakdown = brk]
      r == [Remote("takeCensus", R.t.id, R.t.path)
              EXCEPT !.breakdown = brk, !.asInverted = inv,
                     !.filter = FilterOpt(flt)]
  IN  Await([R EXCEPT !.c = Dispatch(@, a), !.t.inverted = inv,
                      !.t.filter = flt, !.t.breakdown = brk,
                      !.t.rounds = @ + 1], r)

\* censusChanged without the comparison of the filters
censusChangedButFilter(R) ==
  \/ R.t.inverted # R.c.inverted
  \/ ~breakdownEquals(R.t.breakdown, R.c.breakdown)

\* censusChanged of a loop that goes round at least twice
censusChangedOrFirst(R) ==
  \/ R.t.rounds < 2
  \/ R.t.inverted # R.c.inverted
  \/ R.t.filter # R.c.filter
  \/ ~breakdownEquals(R.t.breakdown, R.c.breakdown)

\* the condition of the do-while loop (lines 162-164)
censusChanged(R) ==
  \/ R.t.inverted # R.c.inverted
  \/ R.t.filter # R.c.filter
  \/ ~breakdownEquals(R.t.breakdown, R.c.breakdown)

\* takeCensus without the early return
takeCensusAlways(R) ==
  LET snapshot == getSnapshot(R.c.snapshots, R.t.id) IN
  IF snapshot.state \notin CensusStates
  THEN End([R EXCEPT !.c = AssertFail(@, [op |-> "takeCensus",
                                            id |-> R.t.id])], "thrown")
  ELSE takeCensusRound([R EXCEPT !.t.path = snapshot.path])

\* lines 120-138: from the entry to the loop
takeCensus(R) ==
  LET snapshot == getSnapshot(R.c.snapshots, R.t.id) IN
  IF snapshot.state \notin CensusStates
  THEN End([R EXCEPT !.c = AssertFail(@, [op |-> "takeCensus",
                                            id |-> R.t.id])], "thrown")
  ELSE IF censusIsUpToDate(R.c.inverted, R.c.filter, R.c.breakdown,
                           snapshot.census)
  THEN End([R EXCEPT !.c = Note(@, R.t.id, "upToDate")], "done")
  ELSE takeCensusRound([R EXCEPT !.t.path = snapshot.path])

\* lines 162-173: heapWorker.takeCensus resolved with report
takeCensusTaken(R, report) ==
  IF censusChanged(R)
  THEN takeCensusRound([R EXCEPT !.c = Note(@, R.t.id, "retaken")])
  ELSE LET a == [Action("TAKE_CENSUS_END", R.t.id)
                   EXCEPT !.breakdown = R.t.breakdown,
                          !.inverted = R.t.inverted,
                          !.filter = R.t.filter, !.report = report]
       IN  End([R EXCEPT !.c = IF R.t.rounds > 1
                               THEN Note(Dispatch(@, a), R.t.id, "ended")
                               ELSE Dispatch(@, a)], "done")

\* takeCensusFailed going round the loop again when the census is stale
takeCensusFailedRetries(R) ==
  LET c == Dispatch(R.c, Action("SNAPSHOT_ERROR", R.t.id)) IN
  IF censusChanged(R) THEN takeCensusRound([R EXCEPT !.c = c])
  ELSE End([R EXCEPT !.c = c], "done")

\* lines 156-160: heapWorker.takeCensus rejected
takeCensusFailed(R) ==
  LET c == Dispatch(R.c, Action("SNAPSHOT_ERROR", R.t.id)) IN
  End([R EXCEPT !.c = IF censusChanged(R) THEN Note(c, R.t.id, "stale")
                      ELSE c], "done")

(***************************************************************************)
(* takeSnapshotAndCensus (snapshot.js 19-31)                               *)
(***************************************************************************)
\* lines 21-26: takeSnapshot returned id
takeSnapshotAndCensusTaken(R) ==
  IF R.t.ret = NullId THEN End(R, "done") ELSE readSnapshot(R)

\* takeSnapshotAndCensusRead without the test of the snapshot's state
takeSnapshotAndCensusReadAnyState(R) == takeCensus(R)

\* lines 26-29: readSnapshot returned
takeSnapshotAndCensusRead(R) ==
  IF getSnapshot(R.c.snapshots, R.t.id).state = "READ"
  THEN takeCensus(R)
  ELSE End(R, "done")

(***************************************************************************)
(* refreshSelectedCensus (snapshot.js 183-197) and                         *)
(* selectSnapshotAndRefresh (snapshot.js 40-49)                            *)
(***************************************************************************)
\* getState().snapshots.find(s => s.selected): its index, 0 if there is none
SelectedIndex(snaps) ==
  IF \E i \in DOMAIN snaps : snaps[i].selected
  THEN CHOOSE i \in DOMAIN snaps :
         snaps[i].selected /\ \A j \in 1..(i - 1) : ~snaps[j].selected
  ELSE 0

\* RefreshStates of a refreshSelectedCensus that never takes a census
RefreshStatesNone == {}

\* the states in which refreshSelectedCensus takes a census (line 193)
RefreshStates == {"SAVED_CENSUS"}

\* refreshSelectedCensus without the test of the snapshot's state
refreshSelectedCensusAnyState(R) ==
  LET i == SelectedIndex(R.c.snapshots) IN
  IF i # 0
  THEN takeCensus([R EXCEPT !.t.id = R.c.snapshots[i].id])
  ELSE End(R, "done")

\* lines 184-196
refreshSelectedCensus(R) ==
  LET i == SelectedIndex(R.c.snapshots) IN
  IF i # 0 /\ R.c.snapshots[i].state \in RefreshStates
  THEN takeCensus([R EXCEPT !.t.id = R.c.snapshots[i].id])
  ELSE End(R, "done")

\* selectSnapshotAndRefresh refreshing before it selects
selectSnapshotAndRefreshFirst(R, id) ==
  LET c1 == IF R.c.diffing THEN Dispatch(R.c, toggleDiffing) ELSE R.c
      R2 == refreshSelectedCensus([R EXCEPT !.c = c1])
  IN  [R2 EXCEPT !.c = Dispatch(@, selectSnapshot(id))]

\* lines 41-47
selectSnapshotAndRefresh(R, id) ==
  LET c1 == IF R.c.diffing THEN Dispatch(R.c, toggleDiffing) ELSE R.c
      c2 == Dispatch(c1, selectSnapshot(id))
  IN  refreshSelectedCensus([R EXCEPT !.c = c2])

(***************************************************************************)
(* The state machine of the memory panel's actions.                        *)
(***************************************************************************)
MemInit ==
  /\ snapshots = <<>>
  /\ inverted = FALSE
  /\ filter = NullFilter
  /\ breakdown = "coarseType"
  /\ diffing = FALSE
  /\ tasks = <<>>
  /\ incId = 1
  /\ events = 0
  /\ count = [id \in SnapshotIds |-> [ty \in CountedTypes |-> 0]]
  /\ remote = [id \in SnapshotIds |->
                [m \in RemoteCalls |->
                  [issued |-> 0, resolved |-> 0, rejected |-> 0]]]
  /\ asserts = {}
  /\ last = NoNote

\* the sequence q without its i-th element
RemoveAt(q, i) == SubSeq(q, 1, i - 1) \o SubSeq(q, i + 1, Len(q))

\* what a run R leaves behind: the store, and the record of what it did
Commit(R) ==
  /\ snapshots' = R.c.snapshots
  /\ diffing' = R.c.diffing
  /\ inverted' = R.c.inverted
  /\ filter' = R.c.filter
  /\ breakdown' = R.c.breakdown
  /\ asserts' = R.c.asserts
  /\ last' = R.c.note
  /\ count' = R.c.count
  /\ remote' = R.c.remote
  /\ UNCHANGED animVars

\* a generator function that ran to its end without a caller waiting for it
Settle(R) ==
  IF R.t.root = "readSnapshot" /\ R.t.pc \in ReturnedPcs
  THEN End(R, "done") ELSE R

\* the task list q after a new task ran up to its first suspension
SpawnedIn(q, R) ==
  IF Settle(R).t.pc \in EndedPcs THEN q ELSE Append(q, Settle(R).t)

\* the task list after a new task ran up to its first suspension
Spawned(R) == SpawnedIn(tasks, R)

\* the task list q after inverted, filter or breakdown changed: the tasks
\* in takeCensus's loop have seen one more change
Changed(q) ==
  [i \in DOMAIN q |->
    IF q[i].pc = "takeCensus" THEN [q[i] EXCEPT !.changes = @ + 1]
    ELSE q[i]]

\* the task list after task i ran up to its next suspension
Continued(i, R) ==
  IF Settle(R).t.pc \in EndedPcs THEN RemoveAt(tasks, i)
  ELSE [tasks EXCEPT ![i] = Settle(R).t]

\* the UI dispatches takeSnapshotAndCensus(front, heapWorker)
TakeSnapshotAndCensus ==
  /\ events < MaxEvents
  /\ LET R == takeSnapshot([c |-> Ctx,
                            t |-> NewTask("takeSnapshotAndCensus", incId)])
     IN  /\ Commit(R)
         /\ tasks' = Spawned(R)
  /\ incId' = incId + 1
  /\ events' = events + 1

\* the UI dispatches selectSnapshotAndRefresh(heapWorker, id)
SelectSnapshotAndRefresh(id) ==
  /\ HasSnapshot(snapshots, id)
  /\ LET R == selectSnapshotAndRefresh(
                [c |-> Ctx, t |-> NewTask("selectSnapshotAndRefresh", id)],
                id)
     IN  /\ Commit(R)
         /\ tasks' = Spawned(R)
  /\ UNCHANGED <<incId, events>>

\* the UI dispatches refreshSelectedCensus(heapWorker)
RefreshSelectedCensus ==
  /\ LET R == refreshSelectedCensus(
                [c |-> Ctx, t |-> NewTask("refreshSelectedCensus", NullId)])
     IN  /\ Commit(R)
         /\ tasks' = Spawned(R)
  /\ UNCHANGED <<incId, events>>

\* the UI changes inverted, filter or breakdown and dispatches
\* refreshSelectedCensus(heapWorker) right after
ChangeAndRefresh(inv, flt, brk) ==
  /\ events < MaxEvents
  /\ <<inv, flt, brk>> # <<inverted, filter, breakdown>>
  /\ LET c == [Ctx EXCEPT !.inverted = inv, !.filter = flt,
                          !.breakdown = brk]
         R == refreshSelectedCensus(
                [c |-> c, t |-> NewTask("refreshSelectedCensus", NullId)])
     IN  /\ Commit(R)
         /\ tasks' = SpawnedIn(Changed(tasks), R)
  /\ events' = events + 1
  /\ UNCHANGED incId

ToggleInvertedAndRefresh ==
  ChangeAndRefresh(~inverted, filter, breakdown)

SetFilterStringAndRefresh(flt) ==
  ChangeAndRefresh(inverted, flt, breakdown)

SetBreakdownAndRefresh(brk) ==
  ChangeAndRefresh(inverted, filter, brk)

\* the UI dispatches toggleDiffing()
ToggleDiffing ==
  /\ events < MaxEvents
  /\ LET R == [c |-> Dispatch(Ctx, toggleDiffing),
               t |-> End([c |-> Ctx, t |-> NoTask], "done").t]
     IN  Commit(R)
  /\ events' = events + 1
  /\ UNCHANGED <<tasks, incId>>

\* A generator function that returns settles the promise of its task, and
\* the task that yielded that promise goes on in the same turn of the event
\* loop: promise reactions run before the next event of the UI and before
\* the next answer of a remote object is handled. So the caller's
\* continuation belongs to the step in which the callee returned.
Flow(R) ==
  IF R.t.root # "takeSnapshotAndCensus" THEN R
  ELSE IF R.t.pc = "takeSnapshotReturned" THEN takeSnapshotAndCensusTaken(R)
  ELSE IF R.t.pc = "readSnapshotReturned" THEN takeSnapshotAndCensusRead(R)
  ELSE R

\* the generator function run R is suspended in goes on with the value of
\* the remote call
Resume(R) ==
  CASE R.t.pc = "saveHeapSnapshot" ->
         takeSnapshotSaved(R, SavedPath(R.t.id))
    [] R.t.pc = "readHeapSnapshot" -> readSnapshotRead(R)
    [] R.t.pc = "getCreationTime" ->
         readSnapshotTimed(R, CreationTimeOf(R.t.path))
    [] R.t.pc = "takeCensus" -> takeCensusTaken(R, CensusReport(R.t.call))

\* the generator function run R is suspended in goes on with the error of
\* the remote call
Throw(R) ==
  CASE R.t.pc = "saveHeapSnapshot" -> takeSnapshotFailed(R)
    [] R.t.pc \in {"readHeapSnapshot", "getCreationTime"} ->
         readSnapshotFailed(R)
    [] R.t.pc = "takeCensus" -> takeCensusFailed(R)

\* the continuation of task t when the remote call it waits for resolved
Resolved(t) == Flow(Resume([c |-> Settled(t, "resolved"), t |-> t]))

\* the continuation of task t when the remote call it waits for rejected
Rejected(t) == Flow(Throw([c |-> Settled(t, "rejected"), t |-> t]))

\* the remote call task i waits for resolves
Resolve(i) ==
  /\ tasks[i].pc \in AwaitingPcs
  /\ \E R0 \in {[c |-> Settled(tasks[i], "resolved"), t |-> tasks[i]]} :
     \E R1 \in {Resume(R0)} :
     \E R \in {Flow(R1)} :
       Commit(R) /\ tasks' = Continued(i, R)
  /\ UNCHANGED <<incId, events>>

\* the remote call task i waits for rejects
Reject(i) ==
  /\ tasks[i].pc \in AwaitingPcs
  /\ \E R0 \in {[c |-> Settled(tasks[i], "rejected"), t |-> tasks[i]]} :
     \E R1 \in {Throw(R0)} :
     \E R \in {Flow(R1)} :
       Commit(R) /\ tasks' = Continued(i, R)
  /\ UNCHANGED <<incId, events>>

MemNext ==
  \/ TakeSnapshotAndCensus
  \/ \E id \in SnapshotIds : SelectSnapshotAndRefresh(id)
  \/ RefreshSelectedCensus
  \/ ToggleInvertedAndRefresh
  \/ \E flt \in Filters : SetFilterStringAndRefresh(flt)
  \/ \E brk \in Breakdowns : SetBreakdownAndRefresh(brk)
  \/ ToggleDiffing
  \/ \E i \in DOMAIN tasks : Resolve(i)
  \/ \E i \in DOMAIN tasks : Reject(i)

Init == MemInit /\ AnimInit

Spec == Init /\ [][MemNext]_vars

(***************************************************************************)
(* What the claims speak of.                                               *)
(***************************************************************************)
\* the tasks suspended at the remote call method
TasksAt(method) == {i \in DOMAIN tasks : tasks[i].pc = method}

\* the tasks that work on the snapshot id
TasksOn(id) == {i \in DOMAIN tasks : tasks[i].id = id}

\* how many remote calls made for the snapshot id were rejected
RejectedFor(id) ==
  remote[id]["saveHeapSnapshot"].rejected
    + remote[id]["readHeapSnapshot"].rejected
    + remote[id]["getCreationTime"].rejected
    + remote[id]["takeCensus"].rejected

\* the snapshots of the list, by id
Taken == {id \in SnapshotIds : HasSnapshot(snapshots, id)}

(***************************************************************************)
(* C1. takeSnapshot returns the id of the snapshot it created when         *)
(* front.saveHeapSnapshot() resolves and null when it rejects; it          *)
(* dispatches TAKE_SNAPSHOT_END, with that id and the saved path, exactly  *)
(* when the save resolved and SNAPSHOT_ERROR, with that id, exactly when   *)
(* it rejected, never both for one call.                                   *)
(***************************************************************************)
C1_TakeSnapshotResult ==
  /\ \A i \in TasksAt("saveHeapSnapshot") :
       LET t == tasks[i]
           ok == takeSnapshotSaved(Run(t), SavedPath(t.id))
           ko == takeSnapshotFailed(Run(t))
       IN  /\ ok.t.ret = t.id
           /\ ok.c.dispatched =
                <<[Action("TAKE_SNAPSHOT_END", t.id)
                     EXCEPT !.path = SavedPath(t.id)]>>
           /\ ko.t.ret = NullId
           /\ ko.c.dispatched = <<Action("SNAPSHOT_ERROR", t.id)>>
  /\ \A id \in SnapshotIds :
       LET save == remote[id]["saveHeapSnapshot"] IN
       /\ save.resolved + save.rejected <= 1
       /\ count[id]["TAKE_SNAPSHOT_END"] = save.resolved
       /\ count[id]["SNAPSHOT_ERROR"] = RejectedFor(id)
       /\ save.resolved = 1 =>
            /\ getSnapshot(snapshots, id).path = SavedPath(id)
            /\ count[id]["READ_SNAPSHOT_START"] = 1
       /\ save.rejected = 1 =>
            /\ count[id]["SNAPSHOT_ERROR"] = 1
            /\ count[id]["READ_SNAPSHOT_START"] = 0
            /\ TasksOn(id) = {}

\* one save has resolved and another has rejected
C1_Witness ==
  \E a, b \in SnapshotIds :
    /\ remote[a]["saveHeapSnapshot"].resolved = 1
    /\ remote[b]["saveHeapSnapshot"].rejected = 1

(***************************************************************************)
(* C2. In takeSnapshotAndCensus the remote steps for one snapshot happen   *)
(* in the order saveHeapSnapshot, readHeapSnapshot, getCreationTime,       *)
(* heapWorker.takeCensus, each started only after the one before resolved. *)
(* After a failed save neither readSnapshot nor takeCensus is dispatched,  *)
(* and takeCensus is dispatched only for a snapshot that readSnapshot left *)
(* in state READ: heapWorker.takeCensus is never called for a snapshot     *)
(* whose save or read failed.                                              *)
(***************************************************************************)
C2_RemoteOrder ==
  /\ \A id \in SnapshotIds :
       LET save == remote[id]["saveHeapSnapshot"]
           read == remote[id]["readHeapSnapshot"]
           time == remote[id]["getCreationTime"]
           census == remote[id]["takeCensus"]
       IN  /\ save.issued <= 1 /\ read.issued <= 1 /\ time.issued <= 1
           /\ read.issued = save.resolved
           /\ time.issued = read.resolved
           /\ census.issued >= 1 => time.resolved = 1
           /\ save.rejected + read.rejected + time.rejected >= 1 =>
                census.issued = 0
           /\ save.rejected >= 1 =>
                read.issued = 0 /\ count[id]["READ_SNAPSHOT_START"] = 0
  /\ \A i \in DOMAIN tasks :
       LET t == tasks[i]
           ok == Resolved(t)
           ko == Rejected(t)
       IN  t.root = "takeSnapshotAndCensus" /\ t.pc # "takeCensus" =>
             /\ Methods(ok.c.called) =
                  <<CASE t.pc = "saveHeapSnapshot" -> "readHeapSnapshot"
                      [] t.pc = "readHeapSnapshot" -> "getCreationTime"
                      [] t.pc = "getCreationTime" -> "takeCensus">>
             /\ ok.c.called[1].id = t.id
             /\ ko.c.called = <<>>
             /\ ko.c.asserts = {}
             /\ Types(ko.c.dispatched) = <<"SNAPSHOT_ERROR">>
             /\ ko.t.pc = "done"

\* the census of one snapshot is being taken after all the steps before it,
\* and the read of another snapshot failed
C2_Witness ==
  \E a, b \in SnapshotIds :
    /\ remote[a]["takeCensus"].issued = 1
    /\ remote[a]["getCreationTime"].resolved = 1
    /\ remote[b]["readHeapSnapshot"].rejected = 1
    /\ TasksOn(b) = {}

(***************************************************************************)
(* C3. When a remote call rejects inside readSnapshot or takeCensus, the   *)
(* operation dispatches exactly one SNAPSHOT_ERROR for that snapshot id    *)
(* and ends: it dispatches no READ_SNAPSHOT_END or TAKE_CENSUS_END, issues *)
(* no further worker call (no getCreationTime after a failed               *)
(* readHeapSnapshot), and does not take the census again, also when        *)
(* inverted, filter or breakdown changed while the failed call was in      *)
(* flight.                                                                 *)
(***************************************************************************)
C3_RejectionEnds ==
  /\ \A i \in DOMAIN tasks :
       LET t == tasks[i]
           ko == Rejected(t)
       IN  t.pc \in {"readHeapSnapshot", "getCreationTime", "takeCensus"} =>
             /\ ko.c.dispatched = <<Action("SNAPSHOT_ERROR", t.id)>>
             /\ ko.c.called = <<>>
             /\ ko.c.asserts = {}
             /\ ko.t.pc = "done"
  /\ \A id \in SnapshotIds :
       LET read == remote[id]["readHeapSnapshot"]
           time == remote[id]["getCreationTime"]
           census == remote[id]["takeCensus"]
       IN  /\ read.rejected = 1 => time.issued = 0
           /\ read.rejected + time.rejected >= 1 =>
                count[id]["READ_SNAPSHOT_END"] = 0
           /\ read.rejected + time.rejected + census.rejected >= 1 =>
                /\ TasksOn(id) = {}
                /\ count[id]["SNAPSHOT_ERROR"] = 1
                /\ census.issued = census.resolved + census.rejected
                /\ getSnapshot(snapshots, id).state = "ERROR"

\* a heapWorker.takeCensus call has just rejected after inverted, filter or
\* breakdown had changed, and the read of another snapshot has failed
C3_Witness ==
  /\ last.tag = "stale"
  /\ remote[last.id]["takeCensus"].rejected = 1
  /\ \E b \in SnapshotIds : remote[b]["readHeapSnapshot"].rejected = 1

(***************************************************************************)
(* readSnapshot dispatched on its own: by the import of a snapshot file,   *)
(* which adds a snapshot in state IMPORTING and reads it, and by any other *)
(* caller, for any snapshot of the list.                                   *)
(***************************************************************************)
\* the path of the file the snapshot id is imported from
ImportedPath(id) == 200 + id

\* a snapshot file is imported: the snapshot enters the list in state
\* IMPORTING, with its path, and readSnapshot(heapWorker, id) is dispatched
ImportSnapshot ==
  /\ events < MaxEvents
  /\ LET a == [Action("IMPORT_SNAPSHOT_START", incId)
                 EXCEPT !.state = "IMPORTING", !.path = ImportedPath(incId)]
         R == readSnapshot([c |-> Dispatch(Ctx, a),
                            t |-> NewTask("readSnapshot", incId)])
     IN  /\ Commit(R)
         /\ tasks' = Spawned(R)
  /\ incId' = incId + 1
  /\ events' = events + 1

\* readSnapshot(heapWorker, id) is dispatched for a snapshot of the list
ReadSnapshot(id) ==
  /\ HasSnapshot(snapshots, id)
  /\ LET R == readSnapshot([c |-> Ctx, t |-> NewTask("readSnapshot", id)])
     IN  /\ Commit(R)
         /\ tasks' = Spawned(R)
  /\ UNCHANGED <<incId, events>>

\* Snapshots are taken and imported, and readSnapshot is dispatched again
\* for any of them at any moment; inverted, filter and breakdown stay as
\* they are, since readSnapshot reads none of them.
ReadNext ==
  \/ TakeSnapshotAndCensus
  \/ ImportSnapshot
  \/ \E id \in SnapshotIds : ReadSnapshot(id)
  \/ \E i \in DOMAIN tasks : Resolve(i)
  \/ \E i \in DOMAIN tasks : Reject(i)

SpecRead == Init /\ [][ReadNext]_vars

(***************************************************************************)
(* C4. readSnapshot may only be called once per snapshot. Its assertion    *)
(* holds only for a snapshot in state SAVED or IMPORTING, so once          *)
(* READ_SNAPSHOT_START was dispatched for a snapshot (while it is read,    *)
(* after READ_SNAPSHOT_END, after SNAPSHOT_ERROR) every further            *)
(* readSnapshot for it fails the assertion and dispatches nothing, and     *)
(* READ_SNAPSHOT_START is dispatched at most once per snapshot id.         *)
(***************************************************************************)
C4_ReadOnce ==
  \A id \in Taken :
    LET s == getSnapshot(snapshots, id)
        R == readSnapshot(Run(NewTask("readSnapshot", id)))
        failure == [op |-> "readSnapshot", id |-> id]
    IN  /\ count[id]["READ_SNAPSHOT_START"] <= 1
        /\ count[id]["READ_SNAPSHOT_START"] = 1 =>
             s.state \notin {"SAVED", "IMPORTING"}
        /\ s.state \notin {"SAVED", "IMPORTING"} =>
             /\ R.c.asserts = {failure}
             /\ R.c.dispatched = <<>>
             /\ R.c.called = <<>>
             /\ R.t.pc = "thrown"

\* readSnapshot was dispatched again, and failed its assertion, for an
\* imported snapshot that had been read, while the read of another snapshot
\* is in flight and that of a third has failed
C4_Witness ==
  \E a, b, c \in Taken :
    /\ asserts = {[op |-> "readSnapshot", id |-> a]}
    /\ count[a]["READ_SNAPSHOT_START"] = 1
    /\ count[b]["READ_SNAPSHOT_START"] = 1
    /\ count[c]["READ_SNAPSHOT_START"] = 1
    /\ getSnapshot(snapshots, a).state = "READ"
    /\ getSnapshot(snapshots, a).path = ImportedPath(a)
    /\ getSnapshot(snapshots, b).state = "READING"
    /\ getSnapshot(snapshots, c).state = "ERROR"

(***************************************************************************)
(* C5. Whenever takeCensus dispatches TAKE_CENSUS_END, the inverted,       *)
(* filter and breakdown the action carries are those of the store at that  *)
(* moment, and its report is the result of the last heapWorker.takeCensus  *)
(* call, which was made with exactly those parameters. If one of the three *)
(* changed while the call was in flight, takeCensus dispatches a new       *)
(* TAKE_CENSUS_START and makes a new worker call instead of ending.        *)
(***************************************************************************)
\* the heapWorker.takeCensus call for the snapshot id at path, with the
\* store's inverted, filter and breakdown
CurrentCensusCall(id, path) ==
  [Remote("takeCensus", id, path)
     EXCEPT !.breakdown = breakdown, !.asInverted = inverted,
            !.filter = filter]

C5_CensusEndIsCurrent ==
  /\ \A i \in TasksAt("takeCensus") :
       LET t == tasks[i]
           R == Resolved(t)
           path == getSnapshot(snapshots, t.id).path
       IN  /\ t.call = [Remote("takeCensus", t.id, path)
                          EXCEPT !.breakdown = t.breakdown,
                                 !.asInverted = t.inverted,
                                 !.filter = t.filter]
           /\ IF t.inverted = inverted /\ t.filter = filter
                 /\ t.breakdown = breakdown
              THEN /\ R.c.dispatched =
                        <<[Action("TAKE_CENSUS_END", t.id)
                             EXCEPT !.inverted = inverted,
                                    !.filter = filter,
                                    !.breakdown = breakdown,
                                    !.report = CensusReport(
                                       CurrentCensusCall(t.id, path))]>>
                   /\ R.c.called = <<>>
                   /\ R.t.pc = "done"
              ELSE /\ R.c.dispatched =
                        <<[Action("TAKE_CENSUS_START", t.id)
                             EXCEPT !.inverted = inverted,
                                    !.filter = filter,
                                    !.breakdown = breakdown]>>
                   /\ R.c.called = <<CurrentCensusCall(t.id, path)>>
                   /\ R.t.pc = "takeCensus"
                   /\ R.t.call = CurrentCensusCall(t.id, path)
  /\ \A id \in Taken :
       LET s == getSnapshot(snapshots, id) IN
       s.state = "SAVED_CENSUS" =>
         s.census.report =
           [path |-> s.path, breakdown |-> s.census.breakdown,
            asInverted |-> s.census.inverted, filter |-> s.census.filter]

\* takeCensus has just dispatched TAKE_CENSUS_END after it took the census
\* again because of a change
C5_Witness ==
  /\ last.tag = "ended"
  /\ getSnapshot(snapshots, last.id).state = "SAVED_CENSUS"
  /\ remote[last.id]["takeCensus"].resolved >= 2

(***************************************************************************)
(* C6. If breakdown, filter and inversion are those the snapshot's census  *)
(* was taken with, takeCensus does nothing: it dispatches no               *)
(* TAKE_CENSUS_START, TAKE_CENSUS_END or SNAPSHOT_ERROR, makes no          *)
(* heapWorker call, and the snapshot stays in its state.                   *)
(***************************************************************************)
C6_UpToDateCensusIsKept ==
  \A id \in Taken :
    LET s == getSnapshot(snapshots, id)
        R == takeCensus(Run(NewTask("refreshSelectedCensus", id)))
    IN  /\ s.state \in {"READ", "SAVED_CENSUS"}
        /\ s.census.taken
        /\ s.census.inverted = inverted
        /\ s.census.filter = filter
        /\ s.census.breakdown = breakdown
        => /\ R.c.dispatched = <<>>
           /\ R.c.called = <<>>
           /\ R.c.snapshots = snapshots
           /\ R.c.asserts = {}
           /\ R.t.pc = "done"

\* takeCensus has just returned at once for a snapshot whose census was up
\* to date, and the snapshot is as it was
C6_Witness ==
  /\ last.tag = "upToDate"
  /\ getSnapshot(snapshots, last.id).state = "SAVED_CENSUS"
  /\ TasksOn(last.id) = {}

(***************************************************************************)
(* C7. Provided refreshSelectedCensus is dispatched after every change of  *)
(* inverted, filter or breakdown, then however these changes interleave    *)
(* with the tasks that work on the selected snapshot, once all tasks have  *)
(* finished without a remote error the selected snapshot is in state       *)
(* SAVED_CENSUS and its census was taken with the current inverted, filter *)
(* and breakdown.                                                          *)
(***************************************************************************)
C7_SelectedCensusIsCurrent ==
  tasks = <<>> =>
    \A i \in DOMAIN snapshots :
      LET s == snapshots[i] IN
      s.selected /\ s.state # "ERROR" =>
        /\ s.state = "SAVED_CENSUS"
        /\ s.census.inverted = inverted
        /\ s.census.filter = filter
        /\ s.census.breakdown = breakdown
        /\ s.census.report =
             [path |-> s.path, breakdown |-> breakdown,
              asInverted |-> inverted, filter |-> filter]

\* all tasks have finished, and the last one took the census of the selected
\* snapshot again because of a change that arrived while it ran
C7_Witness ==
  /\ tasks = <<>>
  /\ last.tag = "ended"
  /\ getSnapshot(snapshots, last.id).selected
  /\ getSnapshot(snapshots, last.id).state = "SAVED_CENSUS"

(***************************************************************************)
(* C8. selectSnapshotAndRefresh(heapWorker, id) turns diffing off if it is *)
(* on, then dispatches SELECT_SNAPSHOT for id, then refreshes: a census is *)
(* taken for the selected snapshot if and only if it is in state           *)
(* SAVED_CENSUS and its census was taken with another breakdown, filter or *)
(* inversion than the current ones. With no selected snapshot, or one in   *)
(* another state, refreshSelectedCensus dispatches nothing and makes no    *)
(* worker call.                                                            *)
(***************************************************************************)
\* the census of the snapshot s was taken with the store's parameters
TakenWithCurrent(s) ==
  /\ s.census.taken
  /\ s.census.inverted = inverted
  /\ s.census.filter = filter
  /\ s.census.breakdown = breakdown

C8_SelectAndRefresh ==
  /\ \A id \in Taken :
       LET s == getSnapshot(snapshots, id)
           R == selectSnapshotAndRefresh(
                  Run(NewTask("selectSnapshotAndRefresh", id)), id)
           first == IF diffing THEN <<toggleDiffing, selectSnapshot(id)>>
                    ELSE <<selectSnapshot(id)>>
           start == [Action("TAKE_CENSUS_START", id)
                       EXCEPT !.inverted = inverted, !.filter = filter,
                              !.breakdown = breakdown]
       IN  /\ ~R.c.diffing
           /\ \A i \in DOMAIN R.c.snapshots :
                R.c.snapshots[i].selected <=> R.c.snapshots[i].id = id
           /\ IF s.state = "SAVED_CENSUS" /\ ~TakenWithCurrent(s)
              THEN /\ R.c.dispatched = first \o <<start>>
                   /\ R.c.called = <<CurrentCensusCall(id, s.path)>>
                   /\ R.t.pc = "takeCensus"
              ELSE /\ R.c.dispatched = first
                   /\ R.c.called = <<>>
                   /\ R.t.pc = "done"
  /\ LET R == refreshSelectedCensus(Run(NewTask("refreshSelectedCensus",
                                                NullId)))
     IN  (\A i \in DOMAIN snapshots :
            snapshots[i].selected => snapshots[i].state # "SAVED_CENSUS")
         => /\ R.c.dispatched = <<>>
            /\ R.c.called = <<>>
            /\ R.t.pc = "done"

\* selectSnapshotAndRefresh has selected a snapshot whose census was taken
\* with other parameters and is taking its census, while a snapshot that was
\* selected before is in another state than SAVED_CENSUS
C8_Witness ==
  \E i \in DOMAIN tasks :
    /\ tasks[i].root = "selectSnapshotAndRefresh"
    /\ tasks[i].pc = "takeCensus"
    /\ getSnapshot(snapshots, tasks[i].id).selected
    /\ \E b \in Taken :
         getSnapshot(snapshots, b).state \notin {"SAVED_CENSUS",
                                                  "SAVING_CENSUS"}

(***************************************************************************)
(* The animation inspector: values.                                        *)
(***************************************************************************)
\* what the inspector can have selected: nothing, two connected elements
\* and a connected text node
Selections == {NullNode, "div", "span", "text"}
Tools == {"inspector", "webconsole"}
Tabs == {"animationinspector", "ruleview"}

\* gInspector.selection.isConnected()
isConnected(sel) == sel # NullNode
\* gInspector.selection.isElementNode()
isElementNode(sel) == sel \in {"div", "span"}

\* how many animations the node has when the server is asked for them
NumPlayers(node) == IF node = "div" THEN 1 ELSE IF node = "span" THEN 2 ELSE 0

\* The AnimationPlayerFronts of one answer of getAnimationPlayersForNode:
\* the actor makes new player actors for every request, so the fronts of
\* the gen-th answer are not those of any other.
PlayersFor(node, gen) ==
  [k \in 1..NumPlayers(node) |-> [node |-> node, ix |-> k, gen |-> gen]]

\* the player of an animation that starts on the node the server observes
AddedPlayer(srv) ==
  [node |-> srv.node, ix |-> NumPlayers(srv.node) + 1, gen |-> srv.gen]

Range(q) == {q[i] : i \in DOMAIN q}

\* the actors the requests go to; answers of one actor come in the order of
\* its requests
NoActor == [kind |-> "none", player |-> <<>>]
TargetActor == [kind |-> "target", player |-> <<>>]
AnimationsActor == [kind |-> "animations", player |-> <<>>]
PlayerActor(p) == [kind |-> "player", player |-> <<p>>]
\* the AnimationsPanel, whose initialize and destroy startup and shutdown
\* await
PanelActor == [kind |-> "panel", player |-> <<>>]

\* the state of a for..of loop over this.animationPlayers: an array
\* iterator reads the array object it was made for, at its index k. While
\* that object still is this.animationPlayers (live) it is read from there;
\* once this.animationPlayers was assigned another array, items is what the
\* old array held.
NoIter == [live |-> FALSE, items |-> <<>>, k |-> 0]

\* a call of an async function of the controller
NewCall(root) ==
  [root |-> root, pc |-> "start", branch |-> "none", actor |-> NoActor,
   node |-> NullNode, iter |-> NoIter, changes |-> <<>>, k |-> 1,
   via |-> "none", did |-> <<>>]

\* the awaits on a request to the server
RequestPcs ==
  {"getServerTraits", "stopAnimationPlayerUpdates", "release",
   "getAnimationPlayersForNode", "mutationRelease"}
\* the awaits on this.initialized.promise and this.destroyed.promise
WaitPcs == {"awaitInitialized", "awaitDestroyed"}
\* a call that returned, a call that threw
AEndedPcs == {"done", "thrown"}

\* what emit(PLAYERS_UPDATED_EVENT, list) and emit(PLAYERS_UPDATED_EVENT)
\* hand to the listeners
Payload(list) == [given |-> TRUE, list |-> list]
NoPayload == [given |-> FALSE, list |-> <<>>]

\* The controller, its surroundings and the record of one run: what was
\* requested of the server (called) and what was emitted.
ACtx ==
  [currentToolId |-> currentToolId, currentTabId |-> currentTabId,
   selection |-> selection, initialized |-> initialized,
   destroyed |-> destroyed, animationsFront |-> animationsFront,
   traits |-> traits, listeners |-> listeners,
   isListeningToMutations |-> isListeningToMutations,
   nodeFront |-> nodeFront, animationPlayers |-> animationPlayers,
   calls |-> calls, updating |-> updating, fronts |-> fronts,
   globals |-> globals, released |-> released, dropped |-> dropped,
   server |-> server,
   called |-> <<>>, emitted |-> <<>>]

\* line 282-286
isPanelVisible(c) ==
  c.currentToolId = "inspector" /\ c.currentTabId = "animationinspector"

\* the call awaits a request to the server
ARequest(R, method, actor) ==
  [R EXCEPT !.c.called = Append(@, method), !.t.pc = method,
            !.t.actor = actor]

AEnd(R, pc) == [R EXCEPT !.t.pc = pc, !.t.actor = NoActor]

\* this.emit(PLAYERS_UPDATED_EVENT, payload)
Emit(R, payload) == [R EXCEPT !.c.emitted = Append(@, payload)]

\* this.animationPlayers = list: the loops that run over the array that was
\* this.animationPlayers go on over that array
AssignPlayers(R, list) ==
  [R EXCEPT
     !.c.calls = [i \in DOMAIN @ |->
                    IF @[i].iter.live
                    THEN [@[i] EXCEPT !.iter.live = FALSE,
                                      !.iter.items = R.c.animationPlayers]
                    ELSE @[i]],
     !.c.animationPlayers = list,
     !.t.iter = NoIter]

\* the awaits of startup and shutdown on the AnimationsPanel
PanelPcs == {"AnimationsPanel.initialize", "AnimationsPanel.destroy"}

\* Line 132-133 and 141-144: call t of initialize or destroy returned. Made
\* by startup or shutdown, the async function that awaited it goes on and
\* awaits the AnimationsPanel; did tells what it awaited before.
Caller(t) ==
  IF t.via = "startup"
  THEN [t EXCEPT !.root = "startup", !.pc = "AnimationsPanel.initialize",
                 !.actor = PanelActor,
                 !.did = <<"AnimationsController.initialize">>]
  ELSE IF t.via = "shutdown"
  THEN [t EXCEPT !.root = "shutdown", !.pc = "AnimationsPanel.destroy",
                 !.actor = PanelActor,
                 !.did = <<"AnimationsController.destroy">>]
  ELSE t

\* the run R, the caller of its call going on if the call returned
Returned(R) ==
  IF R.t.pc = "done" /\ R.t.root \in {"initialize", "destroy"}
  THEN [R EXCEPT !.t = Caller(R.t)]
  ELSE R

\* the calls q once those that wait at pc returned
Without(q, pc) ==
  SelectSeq([i \in DOMAIN q |-> IF q[i].pc = pc THEN Caller(q[i]) ELSE q[i]],
            LAMBDA t : t.pc # pc)

(***************************************************************************)
(* onNewNodeFront, refreshAnimationPlayers, destroyAnimationPlayers.       *)
(***************************************************************************)
\* onNewNodeFront returned. Called by initialize (line 237), initialize goes
\* on and resolves this.initialized (line 239), and the calls of initialize
\* that await that promise return.
onNewNodeFrontReturned(R) ==
  IF R.t.root = "initialize"
  THEN AEnd([R EXCEPT !.c.initialized = "resolved",
                      !.c.calls = Without(@, "awaitInitialized")], "done")
  ELSE AEnd(R, "done")

\* line 401-402: the request of refreshAnimationPlayers; with
\* this.animationsFront null the member access throws
getAnimationPlayersForNode(R) ==
  IF R.c.animationsFront # "live" THEN AEnd(R, "thrown")
  ELSE ARequest(R, "getAnimationPlayersForNode", AnimationsActor)

\* what follows `await this.destroyAnimationPlayers()`: line 306-308 in
\* onNewNodeFront for a selection that is no connected element, line 401 in
\* refreshAnimationPlayers, line 255-262 in destroy
destroyAnimationPlayersReturned(R) ==
  CASE R.t.branch = "notElement" ->
         onNewNodeFrontReturned(
           [Emit(R, NoPayload) EXCEPT !.c.updating = @ - 1])
    [] R.t.branch = "refresh" -> getAnimationPlayersForNode(R)
    [] R.t.branch = "destroy" ->
         AEnd([R EXCEPT
                 !.c.nodeFront = NullNode,
                 !.c.animationsFront =
                    IF @ = Undefined THEN Undefined ELSE NullNode,
                 !.c.destroyed = "resolved",
                 !.c.calls = Without(@, "awaitDestroyed")], "done")

\* front.release() is called: the call awaits the request
Release(R, pc, p) ==
  ARequest([R EXCEPT !.c.released =
                       IF p \in DOMAIN @ THEN [@ EXCEPT ![p] = @ + 1]
                       ELSE @ @@ (p :> 1)],
           pc, PlayerActor(p))

\* line 458-461: the loop releases the front at the iterator's index, or,
\* past the end of the array, this.animationPlayers becomes a new array
releaseFronts(R) ==
  LET arr == IF R.t.iter.live THEN R.c.animationPlayers ELSE R.t.iter.items
  IN  IF R.t.iter.k > Len(arr)
      THEN destroyAnimationPlayersReturned(
             AssignPlayers([R EXCEPT !.c.dropped =
                                       @ \cup Range(R.c.animationPlayers)],
                           <<>>))
      ELSE Release(R, "release", arr[R.t.iter.k])

\* line 459 resolved: the next round of the loop
releaseFrontsNext(R) == releaseFronts([R EXCEPT !.t.iter.k = @ + 1])

\* line 458: the loop starts on the array that is this.animationPlayers now
releaseFrontsStart(R) ==
  releaseFronts([R EXCEPT !.t.iter = [live |-> TRUE, items |-> <<>>,
                                      k |-> 1]])

\* line 450-456: reading hasMutationEvents of a this.traits that was never
\* assigned throws, and so does the call on a null this.animationsFront
destroyAnimationPlayers(R) ==
  IF ~R.c.traits.known THEN AEnd(R, "thrown")
  ELSE IF R.c.traits.hasMutationEvents
  THEN IF R.c.animationsFront # "live" THEN AEnd(R, "thrown")
       ELSE ARequest(R, "stopAnimationPlayerUpdates", AnimationsActor)
  ELSE releaseFrontsStart(R)

\* line 401-409 and 313-315: the answer of getAnimationPlayersForNode
refreshAnimationPlayersGot(R, list) ==
  LET R1 == AssignPlayers(R, list)
      R2 == IF ~R1.c.isListeningToMutations /\ R1.c.traits.hasMutationEvents
            THEN [R1 EXCEPT !.c.listeners["mutations"] = @ + 1,
                            !.c.isListeningToMutations = TRUE]
            ELSE R1
  IN  onNewNodeFrontReturned(
        [Emit(R2, Payload(R2.c.animationPlayers)) EXCEPT !.c.updating = @ - 1])

\* line 297: the node selection hasn't changed
SameNodeFront(c) == c.nodeFront = c.selection

\* line 294-312
onNewNodeFront(R) ==
  IF R.c.globals = NullNode THEN AEnd(R, "thrown")
  ELSE IF ~isPanelVisible(R.c) \/ SameNodeFront(R.c)
  THEN onNewNodeFrontReturned(R)
  ELSE LET R1 == [R EXCEPT !.c.updating = @ + 1]
       IN  IF ~isConnected(R.c.selection) \/ ~isElementNode(R.c.selection)
           THEN destroyAnimationPlayers([R1 EXCEPT !.t.branch = "notElement"])
           ELSE destroyAnimationPlayers(
                  [R1 EXCEPT !.c.nodeFront = R.c.selection,
                             !.t.branch = "refresh",
                             !.t.node = R.c.selection])

\* line 288-292
onPanelVisibilityChange(R) ==
  IF R.c.globals = NullNode THEN AEnd(R, "thrown")
  ELSE IF isPanelVisible(R.c) THEN onNewNodeFront(R) ELSE AEnd(R, "done")

(***************************************************************************)
(* initialize and destroy.                                                 *)
(***************************************************************************)
\* initialize without the test of this.initialized at line 215
initializeAgain(R) ==
  ARequest([R EXCEPT !.c.initialized = "pending",
                     !.c.animationsFront = "live",
                     !.c.fronts = @ + 1],
           "getServerTraits", TargetActor)

\* line 214-229
initialize(R) ==
  IF R.c.initialized = "resolved" THEN AEnd(R, "done")
  ELSE IF R.c.initialized = "pending"
  THEN [R EXCEPT !.t.pc = "awaitInitialized"]
  ELSE ARequest([R EXCEPT !.c.initialized = "pending",
                          !.c.animationsFront = "live",
                          !.c.fronts = @ + 1],
                "getServerTraits", TargetActor)

\* line 265-271
startListeners(c) ==
  [c EXCEPT !.listeners["new-node-front"] = @ + 1,
            !.listeners["sidebar-select"] = @ + 1,
            !.listeners["toolbox-select"] = @ + 1]

\* line 273-280
stopListeners(c) ==
  [c EXCEPT !.listeners["new-node-front"] = 0,
            !.listeners["sidebar-select"] = 0,
            !.listeners["toolbox-select"] = 0,
            !.listeners["mutations"] =
               IF c.isListeningToMutations THEN 0 ELSE @]

\* line 229-239: getServerTraits answered
initializeTraits(R, hasMutationEvents) ==
  LET R1 == [R EXCEPT !.c.traits =
                        [known |-> TRUE,
                         hasMutationEvents |-> hasMutationEvents]]
  IN  IF R1.c.destroyed # "none" THEN AEnd(R1, "done")
      ELSE IF R1.c.globals = NullNode THEN AEnd(R1, "thrown")
      ELSE onNewNodeFront([R1 EXCEPT !.c = startListeners(@)])

\* destroy without the test of this.destroyed at line 247
destroyAgain(R) ==
  IF R.c.initialized = "none" THEN AEnd(R, "done")
  ELSE destroyAnimationPlayers(
         [R EXCEPT !.c = stopListeners([@ EXCEPT !.destroyed = "pending"]),
                   !.t.branch = "destroy"])

\* line 242-254
destroy(R) ==
  IF R.c.initialized = "none" THEN AEnd(R, "done")
  ELSE IF R.c.destroyed = "resolved" THEN AEnd(R, "done")
  ELSE IF R.c.destroyed = "pending"
  THEN [R EXCEPT !.t.pc = "awaitDestroyed"]
  ELSE destroyAnimationPlayers(
         [R EXCEPT !.c = stopListeners([@ EXCEPT !.destroyed = "pending"]),
                   !.t.branch = "destroy"])

(***************************************************************************)
(* onAnimationMutations.                                                   *)
(***************************************************************************)
\* Array.prototype.indexOf: the first index of x, from 0, or -1
indexOf(q, x) ==
  IF \E i \in DOMAIN q : q[i] = x
  THEN (CHOOSE i \in DOMAIN q : q[i] = x /\ \A j \in 1..(i - 1) : q[j] # x) - 1
  ELSE -1

\* Array.prototype.splice(index, 1): a negative index counts from the end
splice(q, index) ==
  LET at == IF index < 0 THEN (IF Len(q) + index < 0 THEN 0
                               ELSE Len(q) + index)
            ELSE index
  IN  IF at >= Len(q) THEN q
      ELSE SubSeq(q, 1, at) \o SubSeq(q, at + 2, Len(q))

RECURSIVE onAnimationMutations(_)
\* line 415-428: the loop over changes from its k-th element on
onAnimationMutations(R) ==
  IF R.t.k > Len(R.t.changes)
  THEN AEnd(Emit(R, Payload(R.c.animationPlayers)), "done")
  ELSE LET ch == R.t.changes[R.t.k]
       IN  IF ch.type = "added"
           THEN onAnimationMutations(
                  [R EXCEPT !.c.animationPlayers = Append(@, ch.player),
                            !.t.k = @ + 1])
           ELSE Release(R, "mutationRelease", ch.player)

\* line 421-424: player.release() resolved
onAnimationMutationsReleased(R) ==
  LET p == R.t.changes[R.t.k].player
      index == indexOf(R.c.animationPlayers, p)
  IN  onAnimationMutations(
        [R EXCEPT !.c.animationPlayers = splice(@, index),
                  !.t.k = @ + 1])

(***************************************************************************)
(* The state machine of the animation inspector.                           *)
(***************************************************************************)
\* the calls of q that await this.initialized.promise or
\* this.destroyed.promise
Waiting(q) == SelectSeq(q, LAMBDA t : t.pc \in WaitPcs)

\* What a run R leaves behind; a call that awaits a request is the newest
\* of the suspended calls. The step notes the handler that ran, what the
\* run did, the async function it ran in and how that ended, and how many
\* calls that awaited a promise of the controller returned with it.
AnimCommit(R, handler) ==
  /\ currentToolId' = R.c.currentToolId
  /\ currentTabId' = R.c.currentTabId
  /\ selection' = R.c.selection
  /\ initialized' = R.c.initialized
  /\ destroyed' = R.c.destroyed
  /\ animationsFront' = R.c.animationsFront
  /\ traits' = R.c.traits
  /\ listeners' = R.c.listeners
  /\ isListeningToMutations' = R.c.isListeningToMutations
  /\ nodeFront' = R.c.nodeFront
  /\ animationPlayers' = R.c.animationPlayers
  /\ updating' = R.c.updating
  /\ fronts' = R.c.fronts
  /\ globals' = R.c.globals
  /\ released' = R.c.released
  /\ dropped' = R.c.dropped
  /\ server' = R.c.server
  /\ calls' = IF Returned(R).t.pc \in AEndedPcs THEN R.c.calls
              ELSE Append(R.c.calls, Returned(R).t)
  /\ step' = [handler |-> handler,
              visible |-> isPanelVisible(R.c),
              updated |-> \/ R.c.animationPlayers # animationPlayers
                          \/ R.c.nodeFront # nodeFront,
              called |-> R.c.called # <<>>,
              emitted |-> R.c.emitted # <<>>,
              root |-> R.t.root,
              ended |-> IF R.t.pc \in AEndedPcs THEN R.t.pc ELSE "no",
              woken |-> Len(Waiting(calls)) - Len(Waiting(R.c.calls))]
  /\ UNCHANGED <<memVars, currentTime>>

\* a run of the handler of an event that has no listener of ours
NotHandled(c) == AEnd([c |-> c, t |-> NewCall("none")], "done")

\* AnimationsController.initialize() is called, in an animationinspector
\* window whose gToolbox and gInspector are set
Initialize ==
  /\ uiEvents < MaxUiEvents
  /\ AnimCommit(initialize([c |-> [ACtx EXCEPT !.globals = "set"],
                            t |-> NewCall("initialize")]),
                "initialize")
  /\ uiEvents' = uiEvents + 1

\* AnimationsController.destroy() is called
Destroy ==
  /\ uiEvents < MaxUiEvents
  /\ AnimCommit(destroy([c |-> ACtx, t |-> NewCall("destroy")]), "destroy")
  /\ uiEvents' = uiEvents + 1

\* the inspector selects another node and emits new-node-front
SelectNode(node) ==
  /\ uiEvents < MaxUiEvents
  /\ node # selection
  /\ LET c == [ACtx EXCEPT !.selection = node]
     IN  IF listeners["new-node-front"] > 0
         THEN AnimCommit(
                onNewNodeFront([c |-> c, t |-> NewCall("onNewNodeFront")]),
                "new-node-front")
         ELSE AnimCommit(NotHandled(c), "none")
  /\ uiEvents' = uiEvents + 1

\* the toolbox shows another tool and emits select
SelectTool(tool) ==
  /\ uiEvents < MaxUiEvents
  /\ tool # currentToolId
  /\ LET c == [ACtx EXCEPT !.currentToolId = tool]
     IN  IF listeners["toolbox-select"] > 0
         THEN AnimCommit(
                onPanelVisibilityChange(
                  [c |-> c, t |-> NewCall("onNewNodeFront")]),
                "select")
         ELSE AnimCommit(NotHandled(c), "none")
  /\ uiEvents' = uiEvents + 1

\* the inspector's sidebar shows another tab and emits select
SelectTab(tab) ==
  /\ uiEvents < MaxUiEvents
  /\ tab # currentTabId
  /\ LET c == [ACtx EXCEPT !.currentTabId = tab]
     IN  IF listeners["sidebar-select"] > 0
         THEN AnimCommit(
                onPanelVisibilityChange(
                  [c |-> c, t |-> NewCall("onNewNodeFront")]),
                "select")
         ELSE AnimCommit(NotHandled(c), "none")
  /\ uiEvents' = uiEvents + 1

\* the changes the server can report for the node it observes: an animation
\* started, for which it makes a player actor it has not made before, or
\* one of its animations ended
MutationBatches(srv) ==
  (IF AddedPlayer(srv) \in srv.made THEN {}
   ELSE {<<[type |-> "added", player |-> AddedPlayer(srv)]>>})
  \cup {<<[type |-> "removed", player |-> p]>> : p \in srv.players}

\* the players of the observed node after the changes
RECURSIVE Mutated(_, _)
Mutated(players, changes) ==
  IF changes = <<>> THEN players
  ELSE Mutated(IF Head(changes).type = "added"
               THEN players \cup {Head(changes).player}
               ELSE players \ {Head(changes).player},
               Tail(changes))

\* the AnimationsFront emits mutations with a list of changes
Mutations(changes) ==
  /\ uiEvents < MaxUiEvents
  /\ listeners["mutations"] > 0
  /\ animationsFront = "live"
  /\ server.node # NoNode
  /\ LET c == [ACtx EXCEPT !.server.players = Mutated(@, changes),
                           !.server.made = Mutated(@, changes)
                                             \cup server.made]
         t == [NewCall("onAnimationMutations") EXCEPT !.changes = changes]
     IN  AnimCommit(onAnimationMutations([c |-> c, t |-> t]), "mutations")
  /\ uiEvents' = uiEvents + 1

\* the request of call i is the oldest its actor has not answered
Oldest(i) == \A j \in 1..(i - 1) : calls[j].actor # calls[i].actor

\* the server after it answered the request of call t
Served(t) ==
  CASE t.pc = "getAnimationPlayersForNode" ->
         [node |-> t.node, gen |-> server.gen + 1,
          players |-> Range(PlayersFor(t.node, server.gen + 1)),
          made |-> Range(PlayersFor(t.node, server.gen + 1))]
    [] t.pc = "stopAnimationPlayerUpdates" ->
         [server EXCEPT !.node = NoNode, !.players = {}, !.made = {}]
    [] OTHER -> server

\* the continuation of call i when its request resolved; hasMutationEvents
\* is the answer to getServerTraits
AResolved(i, hasMutationEvents) ==
  LET t == calls[i]
      R == [c |-> [ACtx EXCEPT !.calls = RemoveAt(calls, i),
                               !.server = Served(t)],
            t |-> t]
  IN  CASE t.pc = "getServerTraits" -> initializeTraits(R, hasMutationEvents)
        [] t.pc = "stopAnimationPlayerUpdates" -> releaseFrontsStart(R)
        [] t.pc = "release" -> releaseFrontsNext(R)
        [] t.pc = "getAnimationPlayersForNode" ->
             refreshAnimationPlayersGot(
               R, PlayersFor(t.node, server.gen + 1))
        [] t.pc = "mutationRelease" -> onAnimationMutationsReleased(R)

\* the continuation of call i when its request rejected: no await of the
\* controller is in a try block, so the call throws
ARejected(i) ==
  AEnd([c |-> [ACtx EXCEPT !.calls = RemoveAt(calls, i)], t |-> calls[i]],
       "thrown")

\* The request call i waits for resolves. A front that was destroyed
\* delivers no answer: the requests of the AnimationsFront and of the
\* player fronts it owns only reject then.
AResolve(i) ==
  /\ calls[i].pc \in RequestPcs
  /\ Oldest(i)
  /\ calls[i].actor = TargetActor \/ animationsFront = "live"
  /\ \E has \in BOOLEAN :
       /\ calls[i].pc = "getServerTraits" \/ has
       /\ AnimCommit(AResolved(i, has), "continuation")
  /\ UNCHANGED uiEvents

\* the request call i waits for rejects
AReject(i) ==
  /\ calls[i].pc \in RequestPcs
  /\ Oldest(i)
  /\ AnimCommit(ARejected(i), "continuation")
  /\ UNCHANGED uiEvents

AnimNext ==
  \/ Initialize
  \/ Destroy
  \/ \E node \in Selections : SelectNode(node)
  \/ \E tool \in Tools : SelectTool(tool)
  \/ \E tab \in Tabs : SelectTab(tab)
  \/ \E changes \in MutationBatches(server) : Mutations(changes)
  \/ \E i \in DOMAIN calls : AResolve(i)
  \/ \E i \in DOMAIN calls : AReject(i)

SpecAnim == Init /\ [][AnimNext]_vars

\* The controller is initialized, and then nothing happens but selections
\* of nodes, tools and sidebar tabs, and every request resolves.
SelectNext ==
  \/ Initialize
  \/ \E node \in Selections : SelectNode(node)
  \/ \E tool \in Tools : SelectTool(tool)
  \/ \E tab \in Tabs : SelectTab(tab)
  \/ \E i \in DOMAIN calls : AResolve(i)

SpecSelect == Init /\ [][SelectNext]_vars

(***************************************************************************)
(* C9. Whenever the panel is visible and no onNewNodeFront call is in      *)
(* flight, animationPlayers is the list getAnimationPlayersForNode         *)
(* returned for the selected node, or empty if the selection is not a      *)
(* connected element node, for any sequence of selections of nodes and     *)
(* changes of visibility of an initialized controller.                     *)
(***************************************************************************)
C9_PlayersUpToDate ==
  (/\ initialized = "resolved"
   /\ isPanelVisible(ACtx)
   /\ calls = <<>>)
  => IF isConnected(selection) /\ isElementNode(selection)
     THEN \E gen \in 1..server.gen :
            animationPlayers = PlayersFor(selection, gen)
     ELSE animationPlayers = <<>>

(***************************************************************************)
(* C10. No event the controller handles while isPanelVisible() is false    *)
(* (new-node-front, select of the sidebar or the toolbox, mutations)       *)
(* modifies animationPlayers or nodeFront, issues a request to the server  *)
(* or emits PLAYERS_UPDATED_EVENT.                                         *)
(***************************************************************************)
C10_NoUpdateWhenHidden ==
  (step.handler \in {"new-node-front", "select", "mutations"}
   /\ ~step.visible)
  => ~step.updated /\ ~step.called /\ ~step.emitted

C12_DestroyOnce ==
  LET R == destroy([c |-> ACtx, t |-> NewCall("destroy")])
  IN  /\ initialized = "none" => R.c = ACtx /\ R.t.pc = "done"
      /\ destroyed # "none" =>
           /\ R.c = ACtx
           /\ R.t.pc = IF destroyed = "resolved" THEN "done"
                       ELSE "awaitDestroyed"
      /\ Cardinality({i \in DOMAIN calls :
                        calls[i].root = "destroy"
                        /\ calls[i].pc \in RequestPcs}) <= 1
      /\ (\E i \in DOMAIN calls : calls[i].pc = "awaitDestroyed")
           => destroyed = "pending"
      /\ (step.root = "destroy" /\ step.woken > 0)
           => destroyed = "resolved" /\ step.ended = "done"
      /\ destroyed = "resolved" =>
           /\ nodeFront = NullNode
           /\ animationsFront = NullNode
           /\ \A e \in {"new-node-front", "sidebar-select",
                         "toolbox-select"} : listeners[e] = 0

\* the first call's teardown completed while a later call waited for it:
\* the later call returned in that step
C12_Witness ==
  /\ step.root = "destroy"
  /\ step.woken > 0
  /\ destroyed = "resolved"
  /\ animationsFront = NullNode

(***************************************************************************)
(* startup and shutdown, called by the sidebar when it loads and unloads   *)
(* the animationinspector.                                                 *)
(***************************************************************************)
\* startup that does not await AnimationsController.initialize()
startupPanelFirst(R) ==
  LET R1 == initialize([R EXCEPT !.c.globals = "set"])
  IN  IF R1.t.pc = "thrown" THEN R1 ELSE [R1 EXCEPT !.t = Caller(@)]

\* line 119-133: up to the first await that suspends
startup(R) == Returned(initialize([R EXCEPT !.c.globals = "set"]))

\* line 140-144: up to the first await that suspends
shutdown(R) == Returned(destroy(R))

\* line 133-134 and 144-146: AnimationsPanel.initialize() or
\* AnimationsPanel.destroy() resolved
panelResolved(R) ==
  IF R.t.pc = "AnimationsPanel.destroy"
  THEN AEnd([R EXCEPT !.c.globals = NullNode,
                      !.t.did = Append(@, "AnimationsPanel.destroy")],
            "done")
  ELSE AEnd([R EXCEPT !.t.did = Append(@, "AnimationsPanel.initialize")],
            "done")

\* the sidebar calls setPanel(panel), that is startup(panel)
Startup ==
  /\ uiEvents < MaxUiEvents
  /\ AnimCommit(startup([c |-> ACtx,
                         t |-> [NewCall("initialize")
                                  EXCEPT !.via = "startup"]]),
                "startup")
  /\ uiEvents' = uiEvents + 1

\* the sidebar calls destroy(), that is shutdown()
Shutdown ==
  /\ uiEvents < MaxUiEvents
  /\ AnimCommit(shutdown([c |-> ACtx,
                          t |-> [NewCall("destroy")
                                   EXCEPT !.via = "shutdown"]]),
                "shutdown")
  /\ uiEvents' = uiEvents + 1

\* the run of call i when the promise of the AnimationsPanel it awaits
\* resolved
PanelResolved(i) ==
  panelResolved([c |-> [ACtx EXCEPT !.calls = RemoveAt(calls, i)],
                 t |-> calls[i]])

\* AnimationsPanel.initialize() or AnimationsPanel.destroy() resolves
PanelResolve(i) ==
  /\ calls[i].pc \in PanelPcs
  /\ AnimCommit(PanelResolved(i), "continuation")
  /\ UNCHANGED uiEvents

\* AnimationsPanel.initialize() or AnimationsPanel.destroy() rejects:
\* startup or shutdown throws
PanelReject(i) ==
  /\ calls[i].pc \in PanelPcs
  /\ AnimCommit(ARejected(i), "continuation")
  /\ UNCHANGED uiEvents

\* The sidebar loads and unloads the panel, any number of times and at any
\* moment; requests and the AnimationsPanel's promises resolve and reject.
StartupNext ==
  \/ Startup
  \/ Shutdown
  \/ \E i \in DOMAIN calls : AResolve(i)
  \/ \E i \in DOMAIN calls : AReject(i)
  \/ \E i \in DOMAIN calls : PanelResolve(i)
  \/ \E i \in DOMAIN calls : PanelReject(i)

SpecStartup == Init /\ [][StartupNext]_vars

(***************************************************************************)
(* C13. startup starts AnimationsPanel.initialize only after               *)
(* AnimationsController.initialize resolved, shutdown starts               *)
(* AnimationsPanel.destroy only after AnimationsController.destroy         *)
(* resolved, and gToolbox and gInspector are cleared only after both       *)
(* have finished.                                                          *)
(***************************************************************************)
C13_StartupInSequence ==
  /\ \A i \in DOMAIN calls :
       /\ calls[i].pc = "AnimationsPanel.initialize" =>
            /\ calls[i].did = <<"AnimationsController.initialize">>
            /\ initialized = "resolved" \/ destroyed # "none"
       /\ calls[i].pc = "AnimationsPanel.destroy" =>
            calls[i].did = <<"AnimationsController.destroy">>
       /\ calls[i].via = "startup" /\ calls[i].pc \notin PanelPcs =>
            initialized = "pending"
       /\ calls[i].via = "shutdown" /\ calls[i].pc \notin PanelPcs =>
            destroyed = "pending"
       /\ calls[i].pc \in RequestPcs =>
            \A has \in BOOLEAN :
              /\ AResolved(i, has).c.globals = globals
              /\ Returned(AResolved(i, has)).t.pc \in PanelPcs =>
                   AResolved(i, has).t.pc = "done"
       /\ calls[i].pc \in PanelPcs =>
            (PanelResolved(i).c.globals # globals =>
               PanelResolved(i).t.did = <<"AnimationsController.destroy",
                                          "AnimationsPanel.destroy">>)
  /\ LET R == startup([c |-> ACtx,
                       t |-> [NewCall("initialize")
                                EXCEPT !.via = "startup"]])
     IN  R.t.pc \in PanelPcs => R.c.initialized = "resolved"
  /\ LET R == shutdown([c |-> ACtx,
                        t |-> [NewCall("destroy") EXCEPT !.via = "shutdown"]])
     IN  /\ R.c.globals = globals
         /\ R.t.pc \in PanelPcs =>
              initialized = "none" \/ R.c.destroyed = "resolved"

\* shutdown cleared gToolbox and gInspector after the controller's teardown
\* and the panel's, while a startup that ran its course came before
C13_Witness ==
  /\ globals = NullNode
  /\ destroyed = "resolved"
  /\ initialized = "resolved"
  /\ step.root = "shutdown"
  /\ step.ended = "done"

(***************************************************************************)
(* C14. Every player front that leaves animationPlayers through            *)
(* destroyAnimationPlayers is released exactly once, not zero times and    *)
(* not twice, also when refreshes overlap at their awaits; and once no     *)
(* call is in flight no front of animationPlayers is released.             *)
(***************************************************************************)
C14_ReleasedOnce ==
  /\ \A p \in DOMAIN released : released[p] <= 1
  /\ \A p \in dropped : p \in DOMAIN released
  /\ calls = <<>> =>
       \A p \in Range(animationPlayers) : p \notin DOMAIN released

(***************************************************************************)
(* C15. When destroy is called while initialize awaits the server traits,  *)
(* initialize, once the traits arrive, registers no listeners, fetches no  *)
(* players and does not resolve this.initialized; and destroy itself       *)
(* completes: it does not throw, and this.destroyed is resolved.           *)
(***************************************************************************)
C15_DestroyWhileInitializing ==
  /\ \A i \in DOMAIN calls :
       (calls[i].pc = "getServerTraits" /\ destroyed # "none") =>
         \A has \in BOOLEAN :
           LET R == AResolved(i, has)
           IN  /\ R.t.pc = "done"
               /\ R.c.listeners = listeners
               /\ R.c.called = <<>>
               /\ R.c.animationPlayers = animationPlayers
               /\ R.c.initialized = "pending"
  /\ (step.handler = "destroy" /\ step.root = "destroy"
      /\ \E i \in DOMAIN calls : calls[i].pc = "getServerTraits")
       => step.ended = "done" /\ destroyed = "resolved"

(***************************************************************************)
(* C16. onAnimationMutations applies each change exactly: an added player  *)
(* is appended to animationPlayers; a removed player is released and that  *)
(* player and no other leaves animationPlayers, the others keeping their   *)
(* order, also when it is not in the list or the list was replaced while   *)
(* the release was awaited; PLAYERS_UPDATED_EVENT is emitted once, with    *)
(* the resulting list, after the last change of the batch.                 *)
(***************************************************************************)
C16_MutationsApplied ==
  /\ \A changes \in MutationBatches(server) :
       LET t == [NewCall("onAnimationMutations") EXCEPT !.changes = changes]
           R == onAnimationMutations([c |-> ACtx, t |-> t])
           p == changes[1].player
       IN  IF changes[1].type = "added"
           THEN /\ R.c.animationPlayers = Append(animationPlayers, p)
                /\ R.c.emitted = <<Payload(R.c.animationPlayers)>>
                /\ R.t.pc = "done"
           ELSE /\ R.c.animationPlayers = animationPlayers
                /\ R.c.called = <<"mutationRelease">>
                /\ R.t.actor = PlayerActor(p)
                /\ R.c.emitted = <<>>
  /\ \A i \in DOMAIN calls :
       calls[i].pc = "mutationRelease" =>
         LET p == calls[i].changes[calls[i].k].player
             R == AResolved(i, TRUE)
         IN  /\ R.c.animationPlayers =
                  SelectSeq(animationPlayers, LAMBDA x : x # p)
             /\ calls[i].k = Len(calls[i].changes) =>
                  /\ R.c.emitted = <<Payload(R.c.animationPlayers)>>
                  /\ R.t.pc = "done"

(***************************************************************************)
(* The getter documentCurrentTime.                                         *)
(***************************************************************************)
\* the state of a player whose server sends no documentCurrentTime
NoDocumentCurrentTime == [provided |-> FALSE, documentCurrentTime |-> 0]

\* the states a player front can have, as far as the getter reads them
PlayerStates ==
  {NoDocumentCurrentTime}
  \cup {[provided |-> TRUE, documentCurrentTime |-> v] : v \in 0..MaxTime}

\* the lists of players the getter is read with
PlayerLists ==
  UNION {[1..n -> {[node |-> "div", ix |-> 1, gen |-> 1, state |-> st] :
                     st \in PlayerStates}] : n \in 0..MaxPlayers}

\* !state.documentCurrentTime: true of undefined and of 0
NotDocumentCurrentTime(state) ==
  ~state.provided \/ state.documentCurrentTime = 0

\* Math.max
max(a, b) == IF a >= b THEN a ELSE b

RECURSIVE documentCurrentTimeFrom(_, _, _)
\* line 441-447: the loop from the k-th player on
documentCurrentTimeFrom(players, k, time) ==
  IF k > Len(players) THEN Number(time)
  ELSE IF NotDocumentCurrentTime(players[k].state) THEN False
  ELSE documentCurrentTimeFrom(
         players, k + 1, max(time, players[k].state.documentCurrentTime))

\* line 439-448
documentCurrentTime(players) == documentCurrentTimeFrom(players, 1, 0)

\* AnimationsController.documentCurrentTime is read
ReadDocumentCurrentTime ==
  /\ currentTime' = documentCurrentTime(animationPlayers)
  /\ UNCHANGED <<memVars, ctlVars>>

\* The controller holds any list of players, and the getter is read.
TimeInit == \E players \in PlayerLists : MemInit /\ AnimInitWith(players)

TimeNext == ReadDocumentCurrentTime

SpecTime == TimeInit /\ [][TimeNext]_vars

(***************************************************************************)
(* C17. documentCurrentTime returns the highest documentCurrentTime of     *)
(* the states of the known players, and false only if some player's state  *)
(* has no documentCurrentTime: a player whose documentCurrentTime is 0     *)
(* does not make the result false.                                         *)
(***************************************************************************)
C17_DocumentCurrentTime ==
  currentTime.read =>
    IF \E i \in DOMAIN animationPlayers :
         ~animationPlayers[i].state.provided
    THEN currentTime = False
    ELSE /\ ~currentTime.isFalse
         /\ \A i \in DOMAIN animationPlayers :
              animationPlayers[i].state.documentCurrentTime
                <= currentTime.time
         /\ animationPlayers # <<>> =>
              \E i \in DOMAIN animationPlayers :
                animationPlayers[i].state.documentCurrentTime
                  = currentTime.time

(***************************************************************************)
(* C18. The assertion at the start of takeCensus holds in every call made  *)
(* through takeSnapshotAndCensus, selectSnapshotAndRefresh and             *)
(* refreshSelectedCensus, whatever the interleaving of these, of the       *)
(* changes of inverted, filter and breakdown and of the answers of the     *)
(* remote objects; and no snapshot has two takeCensus in flight.           *)
(***************************************************************************)
\* the tasks that wait for heapWorker.takeCensus on snapshot id
CensusInFlight(id) == TasksAt("takeCensus") \cap TasksOn(id)

C18_CensusAssertion ==
  \* no run of any handler failed the assertion
  /\ \A a \in asserts : a.op # "takeCensus"
  \* and none that can start now does
  /\ \A a \in refreshSelectedCensus(
                 Run(NewTask("refreshSelectedCensus", NullId))).c.asserts :
       a.op # "takeCensus"
  /\ \A id \in Taken :
       \A a \in selectSnapshotAndRefresh(
                  Run(NewTask("selectSnapshotAndRefresh", id)), id).c.asserts :
         a.op # "takeCensus"
  /\ \A i \in DOMAIN tasks :
       tasks[i].pc \in AwaitingPcs =>
         /\ \A a \in Resolved(tasks[i]).c.asserts : a.op # "takeCensus"
         /\ \A a \in Rejected(tasks[i]).c.asserts : a.op # "takeCensus"
  \* at most one takeCensus is in flight per snapshot
  /\ \A id \in SnapshotIds : Cardinality(CensusInFlight(id)) <= 1

\* a census of a snapshot was taken, and a takeCensus that
\* refreshSelectedCensus dispatched for the same snapshot is in flight
C18_Witness ==
  \E i \in DOMAIN tasks :
    /\ tasks[i].pc = "takeCensus"
    /\ tasks[i].root \in {"refreshSelectedCensus", "selectSnapshotAndRefresh"}
    /\ remote[tasks[i].id]["takeCensus"].resolved >= 1
    /\ tasks[i].rounds = 1

(***************************************************************************)
(* Every heapWorker.takeCensus call is answered: the task that waits for   *)
(* it goes on, with the report or with the error.  inverted, filter and    *)
(* breakdown change at most MaxEvents times.                               *)
(***************************************************************************)
CensusAnswered(i) ==
  /\ i \in DOMAIN tasks
  /\ tasks[i].pc = "takeCensus"
  /\ (Resolve(i) \/ Reject(i))

SpecFair == Spec /\ \A i \in 1..MaxEvents : WF_vars(CensusAnswered(i))

\* snapshot id is in the saving-census state
SavingCensus(id) ==
  HasSnapshot(snapshots, id)
    /\ getSnapshot(snapshots, id).state = "SAVING_CENSUS"

\* TAKE_CENSUS_END or SNAPSHOT_ERROR was dispatched for snapshot id after
\* its last TAKE_CENSUS_START, and no takeCensus works on it
CensusOver(id) ==
  /\ HasSnapshot(snapshots, id)
  /\ getSnapshot(snapshots, id).state \in {"SAVED_CENSUS", "ERROR"}
  /\ CensusInFlight(id) = {}

(***************************************************************************)
(* C19. takeCensus terminates: when every heapWorker.takeCensus call is    *)
(* answered and inverted, filter and breakdown change finitely often, a    *)
(* takeCensus that dispatched TAKE_CENSUS_START dispatches                 *)
(* TAKE_CENSUS_END or SNAPSHOT_ERROR for the same id later, and it calls   *)
(* the worker at most once more than the parameters changed while it ran.  *)
(***************************************************************************)
C19_CensusTerminates ==
  \* no snapshot stays for ever in the saving-census state or with a
  \* takeCensus at work
  /\ \A id \in SnapshotIds :
       []<>(CensusInFlight(id) = {} /\ ~SavingCensus(id))
  \* and when none is at work on a snapshot that had one, the last one
  \* dispatched TAKE_CENSUS_END or SNAPSHOT_ERROR
  /\ [](\A id \in SnapshotIds :
          (/\ remote[id]["takeCensus"].issued > 0
           /\ CensusInFlight(id) = {}
           /\ ~SavingCensus(id)) => CensusOver(id))
  /\ [](\A i \in DOMAIN tasks :
          tasks[i].pc = "takeCensus" =>
            tasks[i].rounds <= 1 + tasks[i].changes)

\* a takeCensus that went round its loop twice, for one change of the
\* parameters, has dispatched TAKE_CENSUS_END
C19_Witness ==
  \E id \in Taken :
    /\ last = [tag |-> "ended", id |-> id]
    /\ CensusOver(id)
    /\ remote[id]["takeCensus"].issued = 2
    /\ remote[id]["takeCensus"].resolved = 2

(***************************************************************************)
(* C20. Once destroy has resolved the controller stays torn down:          *)
(* animationPlayers is empty, animationsFront is null, no listener of the  *)
(* controller is registered, and no step issues a request or emits         *)
(* PLAYERS_UPDATED_EVENT, whatever call was suspended when destroy ran.    *)
(***************************************************************************)
C20_StaysTornDown ==
  destroyed = "resolved" =>
    /\ animationPlayers = <<>>
    /\ animationsFront = NullNode
    /\ \A e \in DOMAIN listeners : listeners[e] = 0
    /\ ~step.called
    /\ ~step.emitted

(***************************************************************************)
(* C21. An onNewNodeFront that called gInspector.updating() calls the      *)
(* done() it got exactly once, on every path: for a selection that is no   *)
(* connected element, after the players were refreshed, and when a request *)
(* made meanwhile rejects; and it emits PLAYERS_UPDATED_EVENT before.      *)
(***************************************************************************)
\* the calls of onNewNodeFront that are suspended between
\* gInspector.updating() and done()
Updating == {i \in DOMAIN calls : calls[i].branch \in {"notElement", "refresh"}}

C21_DoneOnce ==
  \* the done() not yet called are those of the calls still at work: none
  \* ended without calling it, none called it twice
  /\ updating = Cardinality(Updating)
  \* the continuation that calls done() has emitted before
  /\ \A i \in DOMAIN calls :
       (calls[i].pc \in RequestPcs /\ Oldest(i) /\ animationsFront = "live")
         => \A has \in BOOLEAN :
              AResolved(i, has).c.updating < updating
                => AResolved(i, has).c.emitted # <<>>

====
